---------------------------- MODULE Spec2Model ----------------------------
(***************************************************************************)
(* Host/guest chain-extension protocol of decoded-2022-demo.               *)
(*                                                                         *)
(*   host  : src/runtime/src/chain_extension.rs   (MyExtension::call)      *)
(*   guest : src/contracts/chain_extension/lib.rs (MyChainExtension,       *)
(*           ExtensionError, the ChainExtension contract)                  *)
(*                                                                         *)
(* One dispatch of MyExtension::call is one atomic action: the call is     *)
(* synchronous and runs to completion.  The order of the operations inside *)
(* one dispatch is kept in last.steps.                                     *)
(***************************************************************************)
EXTENDS Integers, Sequences, FiniteSets, TLC

(***************************************************************************)
(* Bounds of the model.                                                    *)
(***************************************************************************)
\* the block number stops advancing here
MaxBlock == 3
\* longest byte vector a guest puts into a Custom value
MaxVecLen == 4
\* number of deferred calls the scheduler accepts in one run
MaxScheduled == 1
\* status codes 0..MaxStatusCode are handed to the translator
MaxStatusCode == 30

(***************************************************************************)
(* Program constants.                                                      *)
(***************************************************************************)
\* the fixed part of the weight charged by functions 1 and 2
BaseWeight == 10000
\* T::DbWeight::get().writes(1): a runtime parameter (RocksDbWeight's write
\* weight in the node template)
DbWriteWeight == 100000000
\* the selector the host puts in front of the re-entry call's data,
\* [0x00, 0xC0, 0xFF, 0xEE]
Selector == << 0, 192, 255, 238 >>

Accounts == {"alice", "bob"}
ContractAddress == "contract"

(***************************************************************************)
(* Wire codec (SCALE), as both sides derive it.                            *)
(***************************************************************************)
\* u32: four bytes, little endian
Encode_u32(v) ==
    << v % 256, (v \div 256) % 256, (v \div 65536) % 256, (v \div 16777216) % 256 >>

Take(s, n) == SubSeq(s, 1, n)
Drop(s, n) == SubSeq(s, n + 1, Len(s))

\* the same bytes read big endian
Decode_u32_BigEndian(bytes) ==
    IF Len(bytes) # 4
    THEN [ok |-> FALSE, val |-> 0]
    ELSE [ok |-> TRUE,
          val |-> bytes[4] + 256 * bytes[3] + 65536 * bytes[2] + 16777216 * bytes[1]]

\* Decode of a u32 from exactly the bytes given: [ok, val]
Decode_u32(bytes) ==
    IF Len(bytes) # 4
    THEN [ok |-> FALSE, val |-> 0]
    ELSE [ok |-> TRUE,
          val |-> bytes[1] + 256 * bytes[2] + 65536 * bytes[3] + 16777216 * bytes[4]]

\* Compact<u32> length prefix of a Vec
Encode_compact(n) ==
    IF n < 64 THEN << 4 * n >>
    ELSE IF n < 16384 THEN << (4 * n + 1) % 256, (4 * n + 1) \div 256 >>
    ELSE << (4 * n + 2) % 256, ((4 * n + 2) \div 256) % 256,
            ((4 * n + 2) \div 65536) % 256, (4 * n + 2) \div 16777216 >>

\* [ok, val, used]: the value and the number of bytes consumed
Decode_compact(bytes) ==
    IF Len(bytes) = 0 THEN [ok |-> FALSE, val |-> 0, used |-> 0]
    ELSE LET mode == bytes[1] % 4 IN
         CASE mode = 0 -> [ok |-> TRUE, val |-> bytes[1] \div 4, used |-> 1]
           [] mode = 1 ->
                IF Len(bytes) < 2 THEN [ok |-> FALSE, val |-> 0, used |-> 0]
                ELSE LET x == (bytes[1] + 256 * bytes[2]) \div 4 IN
                     [ok |-> x > 63, val |-> x, used |-> 2]
           [] mode = 2 ->
                IF Len(bytes) < 4 THEN [ok |-> FALSE, val |-> 0, used |-> 0]
                ELSE LET x == (bytes[1] + 256 * bytes[2] + 65536 * bytes[3]) \div 4
                              + 4194304 * bytes[4] IN
                     [ok |-> x > 16383, val |-> x, used |-> 4]
           [] OTHER ->
                \* big-integer mode: a u32 takes it only above 2^30 - 1, which
                \* needs four more bytes and no vector of the model has
                [ok |-> FALSE, val |-> 0, used |-> 0]

\* Custom / CustomDef { inner: Vec<u8> }: compact length, then the bytes
Encode_Custom(inner) == Encode_compact(Len(inner)) \o inner

\* decode_all of a CustomDef: every byte must be consumed.  [ok, inner]
Decode_Custom(bytes) ==
    LET c == Decode_compact(bytes) IN
    IF ~c.ok THEN [ok |-> FALSE, inner |-> << >>]
    ELSE IF Len(bytes) - c.used # c.val THEN [ok |-> FALSE, inner |-> << >>]
    ELSE [ok |-> TRUE, inner |-> Drop(bytes, c.used)]

\* n & (n - 1) == 0 without the test for zero
IsPowerOfTwo_ZeroIncluded(n) == \E k \in 0 .. n : n = 0 \/ 2 ^ k = n

RECURSIVE IsPowerOfTwo(_)
\* usize::is_power_of_two
IsPowerOfTwo(n) == n > 0 /\ (n = 1 \/ (n % 2 = 0 /\ IsPowerOfTwo(n \div 2)))


(***************************************************************************)
(* State.                                                                  *)
(***************************************************************************)
VARIABLES
    sender,     \* the account on whose behalf the contract runs
    storage,    \* pallet_template's Something: {} (None) or {v} (Some(v))
    agenda,     \* the scheduler's pending calls, in submission order
    submitted,  \* number of calls the scheduler has accepted so far
    now,        \* the current block number
    gas_left,   \* what is left of the gas meter of the running contract call
    charged,    \* weight charged to the gas meter since the call began
    last,       \* the last dispatch: its input, its result, the state before it
    guest,      \* what the guest's message made of the last dispatch
    replays,    \* the re-entries the scheduler has made, in order
    translated  \* the last status code given to from_status_code, and its result

vars == << sender, storage, agenda, submitted, now, gas_left, charged, last, guest,
           replays, translated >>

(***************************************************************************)
(* Results of MyExtension::call: Ok(RetVal::Converging(code)),             *)
(* Err(DispatchError) or a panic.                                          *)
(***************************************************************************)
Converging(code) == [kind |-> "Converging", code |-> code, err |-> "none"]
Err(e) == [kind |-> "Err", code |-> 0, err |-> e]
Panic == [kind |-> "Panic", code |-> 0, err |-> "Unrecognized function ID."]

IsConverging(r) == r.kind = "Converging"
IsStatus(r, n) == r.kind = "Converging" /\ r.code = n

(***************************************************************************)
(* The host capabilities the dispatcher calls.                             *)
(***************************************************************************)
Signed(who) == [signed |-> TRUE, who |-> who]

\* env.charge_weight(amount): the gas meter consumes the amount, or all that
\* is left when it is not enough, and then fails with OutOfGas.
ChargeWeight(gas, amount) ==
    IF gas >= amount THEN [ok |-> TRUE, gas |-> gas - amount]
    ELSE [ok |-> FALSE, gas |-> 0]

\* pallet_template::Pallet::do_something(origin, something): needs a signed
\* origin, then stores the value.
TemplateDoSomething(origin, something, st) ==
    IF origin.signed THEN [ok |-> TRUE, storage |-> {something}]
    ELSE [ok |-> FALSE, storage |-> st]

\* Some((period, count)) in place of None
MaybePeriodic_Some == TRUE

\* the maybe_periodic argument of schedule(): None
MaybePeriodic == FALSE

\* pallet_scheduler::Pallet::schedule(origin, when, maybe_periodic, priority,
\* call): a target block that is not in the future is refused; otherwise the
\* call joins the agenda of block `when`.  sid numbers the accepted calls; at
\* and made keep the block asked for and the block of the submission.
SchedulerSchedule(origin, when, periodic, call, ag, count, blk) ==
    IF ~origin.signed \/ when <= blk
    THEN [ok |-> FALSE, agenda |-> ag]
    ELSE [ok |-> TRUE,
          agenda |-> Append(ag, [sid |-> count + 1, when |-> when,
                                 origin |-> origin.who, periodic |-> periodic,
                                 call |-> call, at |-> when, made |-> blk])]

(***************************************************************************)
(* MyExtension::call.  e is the execution environment of the call:         *)
(* [caller, address, gas_left, storage, agenda, submitted, now, residue];   *)
(* input is what the guest wrote at input_ptr for this call (in_len bytes), *)
(* residue the bytes of the guest's memory that follow it.  The result is  *)
(* [ret, gas_left, storage, agenda, steps, calls].                         *)
(***************************************************************************)
\* the guest's memory from input_ptr on
Memory(e, input) == input \o e.residue

Out(ret, gas, st, ag, steps, calls) ==
    [ret |-> ret, gas_left |-> gas, storage |-> st, agenda |-> ag,
     steps |-> steps, calls |-> calls]

\* env.read_as::<u32>(): max_encoded_len() = 4 bytes of the guest's memory
\* at input_ptr, whatever in_len is; the read fails when the memory ends
\* before that
ReadAs_u32(memory) ==
    IF Len(memory) < 4 THEN [ok |-> FALSE, val |-> 0]
    ELSE Decode_u32(Take(memory, 4))

\* env.read_as_unbounded::<CustomDef>(len): len bytes at input_ptr
ReadAsUnbounded_Custom(memory, len) == Decode_Custom(Take(memory, len))

InLen(input) == Len(input)

\* 10_000 + T::DbWeight::get().writes(1)
Weight == BaseWeight + DbWriteWeight * 1

\* func_id 1 with the pallet called before the weight is charged
Func1_ActThenCharge(e, input) ==
    LET something == ReadAs_u32(Memory(e, input)) IN
    IF ~something.ok
    THEN Out(Err("DecodingFailed"), e.gas_left, e.storage, e.agenda,
             << "read_as:err" >>, << >>)
    ELSE
    LET caller == e.caller
        r == TemplateDoSomething(Signed(caller), something.val, e.storage)
        calls == << [fn |-> "do_something", origin |-> Signed(caller),
                     arg |-> something.val] >>
        c == ChargeWeight(e.gas_left, Weight)
    IN
    IF ~r.ok
    THEN Out(Err("Pallet"), e.gas_left, r.storage, e.agenda,
             << "read_as", "do_something:err" >>, calls)
    ELSE IF ~c.ok
    THEN Out(Err("OutOfGas"), c.gas, r.storage, e.agenda,
             << "read_as", "do_something", "charge_weight:err" >>, calls)
    ELSE Out(Converging(0), c.gas, r.storage, e.agenda,
             << "read_as", "do_something", "charge_weight" >>, calls)

\* func_id 1 with the weight charged before the argument is read
Func1_ChargeThenDecode(e, input) ==
    LET c == ChargeWeight(e.gas_left, Weight) IN
    IF ~c.ok
    THEN Out(Err("OutOfGas"), c.gas, e.storage, e.agenda,
             << "charge_weight:err" >>, << >>)
    ELSE
    LET something == ReadAs_u32(Memory(e, input)) IN
    IF ~something.ok
    THEN Out(Err("DecodingFailed"), c.gas, e.storage, e.agenda,
             << "charge_weight", "read_as:err" >>, << >>)
    ELSE
    LET caller == e.caller
        r == TemplateDoSomething(Signed(caller), something.val, e.storage)
        calls == << [fn |-> "do_something", origin |-> Signed(caller),
                     arg |-> something.val] >>
    IN
    IF ~r.ok
    THEN Out(Err("Pallet"), c.gas, r.storage, e.agenda,
             << "charge_weight", "read_as", "do_something:err" >>, calls)
    ELSE Out(Converging(0), c.gas, r.storage, e.agenda,
             << "charge_weight", "read_as", "do_something" >>, calls)

\* func_id 1
Func1(e, input) ==
    LET something == ReadAs_u32(Memory(e, input)) IN
    IF ~something.ok
    THEN Out(Err("DecodingFailed"), e.gas_left, e.storage, e.agenda,
             << "read_as:err" >>, << >>)
    ELSE
    LET c == ChargeWeight(e.gas_left, Weight) IN
    IF ~c.ok
    THEN Out(Err("OutOfGas"), c.gas, e.storage, e.agenda,
             << "read_as", "charge_weight:err" >>, << >>)
    ELSE
    LET caller == e.caller
        r == TemplateDoSomething(Signed(caller), something.val, e.storage)
        calls == << [fn |-> "do_something", origin |-> Signed(caller),
                     arg |-> something.val] >>
    IN
    IF ~r.ok
    THEN Out(Err("Pallet"), c.gas, r.storage, e.agenda,
             << "read_as", "charge_weight", "do_something:err" >>, calls)
    ELSE Out(Converging(0), c.gas, r.storage, e.agenda,
             << "read_as", "charge_weight", "do_something" >>, calls)

\* func_id 2 rejecting a vector with a status code the guest does not map
Func2_RejectsWithTwo(e, input) ==
    LET custom == ReadAsUnbounded_Custom(Memory(e, input), InLen(input)) IN
    IF ~custom.ok
    THEN Out(Err("DecodingFailed"), e.gas_left, e.storage, e.agenda,
             << "read_as_unbounded:err" >>, << >>)
    ELSE
    LET c == ChargeWeight(e.gas_left, Weight) IN
    IF ~c.ok
    THEN Out(Err("OutOfGas"), c.gas, e.storage, e.agenda,
             << "read_as_unbounded", "charge_weight:err" >>, << >>)
    ELSE
    IF ~IsPowerOfTwo(Len(custom.inner))
    THEN Out(Converging(2), c.gas, e.storage, e.agenda,
             << "read_as_unbounded", "charge_weight" >>, << >>)
    ELSE
    LET caller == e.caller
        r == TemplateDoSomething(Signed(caller), Len(custom.inner), e.storage)
        calls == << [fn |-> "do_something", origin |-> Signed(caller),
                     arg |-> Len(custom.inner)] >>
    IN
    IF ~r.ok
    THEN Out(Err("Pallet"), c.gas, r.storage, e.agenda,
             << "read_as_unbounded", "charge_weight", "do_something:err" >>, calls)
    ELSE Out(Converging(0), c.gas, r.storage, e.agenda,
             << "read_as_unbounded", "charge_weight", "do_something" >>, calls)

\* func_id 2 with the length checked before the weight is charged
Func2_RejectBeforeCharge(e, input) ==
    LET custom == ReadAsUnbounded_Custom(Memory(e, input), InLen(input)) IN
    IF ~custom.ok
    THEN Out(Err("DecodingFailed"), e.gas_left, e.storage, e.agenda,
             << "read_as_unbounded:err" >>, << >>)
    ELSE
    IF ~IsPowerOfTwo(Len(custom.inner))
    THEN Out(Converging(1), e.gas_left, e.storage, e.agenda,
             << "read_as_unbounded" >>, << >>)
    ELSE
    LET c == ChargeWeight(e.gas_left, Weight) IN
    IF ~c.ok
    THEN Out(Err("OutOfGas"), c.gas, e.storage, e.agenda,
             << "read_as_unbounded", "charge_weight:err" >>, << >>)
    ELSE
    LET caller == e.caller
        r == TemplateDoSomething(Signed(caller), Len(custom.inner), e.storage)
        calls == << [fn |-> "do_something", origin |-> Signed(caller),
                     arg |-> Len(custom.inner)] >>
    IN
    IF ~r.ok
    THEN Out(Err("Pallet"), c.gas, r.storage, e.agenda,
             << "read_as_unbounded", "charge_weight", "do_something:err" >>, calls)
    ELSE Out(Converging(0), c.gas, r.storage, e.agenda,
             << "read_as_unbounded", "charge_weight", "do_something" >>, calls)

\* func_id 2
Func2(e, input) ==
    LET custom == ReadAsUnbounded_Custom(Memory(e, input), InLen(input)) IN
    IF ~custom.ok
    THEN Out(Err("DecodingFailed"), e.gas_left, e.storage, e.agenda,
             << "read_as_unbounded:err" >>, << >>)
    ELSE
    LET c == ChargeWeight(e.gas_left, Weight) IN
    IF ~c.ok
    THEN Out(Err("OutOfGas"), c.gas, e.storage, e.agenda,
             << "read_as_unbounded", "charge_weight:err" >>, << >>)
    ELSE
    IF ~IsPowerOfTwo(Len(custom.inner))
    THEN Out(Converging(1), c.gas, e.storage, e.agenda,
             << "read_as_unbounded", "charge_weight" >>, << >>)
    ELSE
    LET caller == e.caller
        r == TemplateDoSomething(Signed(caller), Len(custom.inner), e.storage)
        calls == << [fn |-> "do_something", origin |-> Signed(caller),
                     arg |-> Len(custom.inner)] >>
    IN
    IF ~r.ok
    THEN Out(Err("Pallet"), c.gas, r.storage, e.agenda,
             << "read_as_unbounded", "charge_weight", "do_something:err" >>, calls)
    ELSE Out(Converging(0), c.gas, r.storage, e.agenda,
             << "read_as_unbounded", "charge_weight", "do_something" >>, calls)

\* func_id 3 with the deferred call aimed at the caller, not at the contract
Func3_DestIsCaller(e, input) ==
    LET at == ReadAs_u32(Memory(e, input)) IN
    IF ~at.ok
    THEN Out(Err("DecodingFailed"), e.gas_left, e.storage, e.agenda,
             << "read_as:err" >>, << >>)
    ELSE
    LET caller == e.caller
        dest == e.caller
        gas_limit == e.gas_left
        data == << >> \o Selector
        call == [dest |-> dest, value |-> 0, gas_limit |-> gas_limit,
                 data |-> data]
        r == SchedulerSchedule(Signed(caller), at.val, MaybePeriodic, call,
                               e.agenda, e.submitted, e.now)
        calls == << [fn |-> "schedule", origin |-> Signed(caller),
                     arg |-> at.val] >>
    IN
    IF ~r.ok
    THEN Out(Err("Scheduler"), e.gas_left, e.storage, r.agenda,
             << "read_as", "schedule:err" >>, calls)
    ELSE Out(Converging(0), e.gas_left, e.storage, r.agenda,
             << "read_as", "schedule" >>, calls)

\* func_id 3 with the charge of lines 117-118 in force
Func3_Charges(e, input) ==
    LET at == ReadAs_u32(Memory(e, input)) IN
    IF ~at.ok
    THEN Out(Err("DecodingFailed"), e.gas_left, e.storage, e.agenda,
             << "read_as:err" >>, << >>)
    ELSE
    LET c == ChargeWeight(e.gas_left, Weight) IN
    IF ~c.ok
    THEN Out(Err("OutOfGas"), c.gas, e.storage, e.agenda,
             << "read_as", "charge_weight:err" >>, << >>)
    ELSE
    LET caller == e.caller
        dest == e.address
        gas_limit == c.gas
        data == << >> \o Selector
        call == [dest |-> dest, value |-> 0, gas_limit |-> gas_limit,
                 data |-> data]
        r == SchedulerSchedule(Signed(caller), at.val, MaybePeriodic, call,
                               e.agenda, e.submitted, e.now)
        calls == << [fn |-> "schedule", origin |-> Signed(caller),
                     arg |-> at.val] >>
    IN
    IF ~r.ok
    THEN Out(Err("Scheduler"), c.gas, e.storage, r.agenda,
             << "read_as", "charge_weight", "schedule:err" >>, calls)
    ELSE Out(Converging(0), c.gas, e.storage, r.agenda,
             << "read_as", "charge_weight", "schedule" >>, calls)

\* func_id 3
Func3(e, input) ==
    LET at == ReadAs_u32(Memory(e, input)) IN
    IF ~at.ok
    THEN Out(Err("DecodingFailed"), e.gas_left, e.storage, e.agenda,
             << "read_as:err" >>, << >>)
    ELSE
    LET caller == e.caller
        dest == e.address
        gas_limit == e.gas_left
        data == << >> \o Selector
        call == [dest |-> dest, value |-> 0, gas_limit |-> gas_limit,
                 data |-> data]
        r == SchedulerSchedule(Signed(caller), at.val, MaybePeriodic, call,
                               e.agenda, e.submitted, e.now)
        calls == << [fn |-> "schedule", origin |-> Signed(caller),
                     arg |-> at.val] >>
    IN
    IF ~r.ok
    THEN Out(Err("Scheduler"), e.gas_left, e.storage, r.agenda,
             << "read_as", "schedule:err" >>, calls)
    ELSE Out(Converging(0), e.gas_left, e.storage, r.agenda,
             << "read_as", "schedule" >>, calls)

\* a default arm that falls through to Ok(RetVal::Converging(0))
Unrecognized_FallsThrough(e, input) ==
    Out(Converging(0), e.gas_left, e.storage, e.agenda, << >>, << >>)

\* the default arm: panic!("Unrecognized function ID.")
Unrecognized(e, input) ==
    Out(Panic, e.gas_left, e.storage, e.agenda, << "panic" >>, << >>)

\* a match whose arm for 3 is empty: it falls to Ok(RetVal::Converging(0))
Call_EmptyThirdArm(func_id, e, input) ==
    CASE func_id = 1 -> Func1(e, input)
      [] func_id = 2 -> Func2(e, input)
      [] func_id = 3 -> Out(Converging(0), e.gas_left, e.storage, e.agenda,
                            << >>, << >>)
      [] OTHER -> Unrecognized(e, input)

\* match func_id { 1 => .., 2 => .., 3 => .., _ => panic!(..) }
Call(func_id, e, input) ==
    CASE func_id = 1 -> Func1(e, input)
      [] func_id = 2 -> Func2(e, input)
      [] func_id = 3 -> Func3(e, input)
      [] OTHER -> Unrecognized(e, input)

(***************************************************************************)
(* Guest side: the status code translator and the extension methods the    *)
(* interface table declares.                                               *)
(***************************************************************************)
GuestOk == [kind |-> "Ok", error |-> "none"]
GuestErr(e) == [kind |-> "Err", error |-> e]
GuestPanic == [kind |-> "Panic", error |-> "encountered unknown status code"]
\* the host returned Err(DispatchError): the contract traps
GuestTrap == [kind |-> "Trap", error |-> "none"]
\* the host panicked: nothing is returned to the guest
GuestAbort == [kind |-> "Abort", error |-> "none"]
GuestNone == [kind |-> "none", error |-> "none"]

\* a translator whose last arm yields an error value instead of panicking
FromStatusCode_DefaultError(status_code) ==
    CASE status_code = 0 -> GuestOk
      [] status_code = 1 -> GuestErr("NotAPowerOfTwo")
      [] OTHER -> GuestErr("EncodingFailed")

\* impl FromStatusCode for ExtensionError
FromStatusCode(status_code) ==
    CASE status_code = 0 -> GuestOk
      [] status_code = 1 -> GuestErr("NotAPowerOfTwo")
      [] OTHER -> GuestPanic

\* impl From<scale::Error> for ExtensionError
FromScaleError == "EncodingFailed"

\* the table with do_something left at the defaults of the attribute
ExtensionTable_DefaultFlags ==
    [do_something  |-> [id |-> 1, handle_status |-> TRUE, returns_result |-> TRUE],
     custom_type   |-> [id |-> 2, handle_status |-> TRUE, returns_result |-> TRUE],
     schedule_call |-> [id |-> 3, handle_status |-> TRUE, returns_result |-> TRUE]]

\* #[ink(extension = N, handle_status = .., returns_result = ..)]
ExtensionTable ==
    [do_something  |-> [id |-> 1, handle_status |-> FALSE, returns_result |-> FALSE],
     custom_type   |-> [id |-> 2, handle_status |-> TRUE, returns_result |-> TRUE],
     schedule_call |-> [id |-> 3, handle_status |-> TRUE, returns_result |-> TRUE]]

RegisteredIds == { ExtensionTable[m].id : m \in DOMAIN ExtensionTable }

MethodOf(func_id) == CHOOSE m \in DOMAIN ExtensionTable : ExtensionTable[m].id = func_id

\* the output buffer after a dispatch: the host writes nothing into it
OutputOf(out) == << >>

\* decode of the declared Ok type, (): it takes no bytes
Decode_unit(bytes) == [ok |-> TRUE]

\* What the caller of an extension method gets for the host's result `ret`.
ExtensionMethod(func_id, out) ==
    CASE out.ret.kind = "Panic" -> GuestAbort
      [] out.ret.kind = "Err" -> GuestTrap
      [] func_id \notin RegisteredIds -> GuestNone  \* no method of the table
      [] OTHER ->
           LET entry == ExtensionTable[MethodOf(func_id)]
               status == IF entry.handle_status
                         THEN FromStatusCode(out.ret.code)
                         ELSE GuestOk
           IN IF status.kind # "Ok" THEN status
              ELSE IF Decode_unit(OutputOf(out)).ok THEN GuestOk
              ELSE GuestErr(FromScaleError)

\* ChainExtension::custom_type builds its argument from a flag
CustomTypeArg(is_power_of_two) ==
    IF is_power_of_two THEN << 1, 2 >> ELSE << 1, 2, 3 >>

\* The selector under which the contract exposes scheduler_handler.  The
\* message is declared #[ink(message)] with no selector attribute, so ink!
\* derives it from the name: the first four bytes of
\* BLAKE2b-256("scheduler_handler"), 0xC7A10DC4.
HandlerSelector == << 199, 161, 13, 196 >>

\* what a call of the contract does when its selector names no message: the
\* contract traps, nothing is emitted
NoMessage(blk) ==
    [event |-> [name |-> "none", at |-> blk], extension_calls |-> << >>]

\* ChainExtension::scheduler_handler: emits SchedulerTriggered { at: block_number }
\* and calls no extension
SchedulerHandler(blk) ==
    [event |-> [name |-> "SchedulerTriggered", at |-> blk], extension_calls |-> << >>]

(***************************************************************************)
(* Inputs.                                                                 *)
(***************************************************************************)
\* the gas a contract call begins with: enough for one charge, not for two
Budget == 2 * Weight - 1
\* payloads of do_something
U32Samples == { 42, 16909060 }
\* execution points a guest asks for: the current block (refused), the next
\* one, the last one of the run
AtSamples == { now, now + 1, MaxBlock } \cap (0 .. MaxBlock)
\* byte vectors of every length up to MaxVecLen
VecOfLen(n) == [i \in 1 .. n |-> i]
Vecs == { VecOfLen(n) : n \in 0 .. MaxVecLen }

\* what a guest other than the contract's three messages can put on the wire:
\* unregistered ids, truncated payloads, a payload with a trailing byte, a
\* length prefix cut short, vectors of other lengths
RawCalls ==
    ({0, 99} \X { << >> })
    \cup ({1} \X { << >>, Take(Encode_u32(42), 3) })
    \cup ({3} \X { Take(Encode_u32(MaxBlock), 2) })
    \cup ({2} \X ({ Encode_Custom(v) : v \in Vecs \ { << 1, 2 >>, << 1, 2, 3 >> } }
                  \cup { << >>, << 8, 1 >>, << 8, 1, 2, 3 >>, << 5 >> }))

\* calls of functions 1 and 3 that declare fewer than the four bytes of a u32
ShortCalls ==
    ({1} \X { << >>, Take(Encode_u32(42), 3) })
    \cup ({3} \X { Take(Encode_u32(MaxBlock), 2) })

\* status codes handed to the translator
StatusCodes == (0 .. MaxStatusCode) \cup { 255, 65536, 2147483647 }

(***************************************************************************)
(* Initial state and actions.                                              *)
(***************************************************************************)
Snapshot(st, ag, gas) == [storage |-> st, agenda |-> ag, gas_left |-> gas]

NoDispatch ==
    [valid |-> FALSE, func_id |-> 0, input |-> << >>, residue |-> << >>,
     ret |-> Converging(0), steps |-> << >>, calls |-> << >>,
     before |-> Snapshot({}, << >>, 0), after |-> Snapshot({}, << >>, 0)]

NoTranslation == [code |-> 0, done |-> FALSE, result |-> GuestNone]

Init ==
    /\ sender \in Accounts
    /\ storage = {}
    /\ agenda = << >>
    /\ submitted = 0
    /\ now = 0
    /\ gas_left = Budget
    /\ charged = 0
    /\ last = NoDispatch
    /\ guest = [msg |-> "none", result |-> GuestNone]
    /\ replays = << >>
    /\ translated = NoTranslation

Env(residue) ==
    [caller |-> sender, address |-> ContractAddress, gas_left |-> gas_left,
     storage |-> storage, agenda |-> agenda, submitted |-> submitted, now |-> now,
     residue |-> residue]

\* what a guest that writes every input at the start of one buffer has after
\* an input of in_len bytes: the end of the input of the call before
Leftover(in_len) == Drop(last.input, in_len)

\* One call of the chain extension by the running contract.
Dispatch(msg, func_id, input, residue) ==
    LET out == Call(func_id, Env(residue), input) IN
    /\ func_id = 3 => submitted < MaxScheduled
    /\ storage' = out.storage
    /\ agenda' = out.agenda
    /\ submitted' = submitted + (Len(out.agenda) - Len(agenda))
    /\ gas_left' = out.gas_left
    /\ charged' = charged + (gas_left - out.gas_left)
    /\ last' = [valid |-> TRUE, func_id |-> func_id, input |-> input,
                residue |-> residue, ret |-> out.ret, steps |-> out.steps, calls |-> out.calls,
                before |-> Snapshot(storage, agenda, gas_left),
                after |-> Snapshot(out.storage, out.agenda, out.gas_left)]
    /\ guest' = [msg |-> msg, result |-> ExtensionMethod(func_id, out)]
    /\ UNCHANGED << sender, now, replays, translated >>

\* a contract call begins with a fresh gas meter
BeginCall ==
    /\ gas_left' = Budget
    /\ charged' = 0
    /\ UNCHANGED << sender, storage, agenda, submitted, now, last, guest,
                    replays, translated >>

\* message do_something(something)
DoSomething ==
    \E something \in U32Samples :
        Dispatch("do_something", ExtensionTable.do_something.id,
                 Encode_u32(something), Leftover(4))

\* message custom_type(is_power_of_two)
CustomType ==
    \E is_power_of_two \in BOOLEAN :
        LET custom == Encode_Custom(CustomTypeArg(is_power_of_two)) IN
        Dispatch("custom_type", ExtensionTable.custom_type.id,
                 custom, Leftover(Len(custom)))

\* message schedule_call(at)
ScheduleCall ==
    \E at \in AtSamples :
        Dispatch("schedule_call", ExtensionTable.schedule_call.id,
                 Encode_u32(at), Leftover(4))

\* any other call of the extension, its input at the very end of the
\* guest's memory
RawCall ==
    \E c \in RawCalls : Dispatch("raw", c[1], c[2], << >>)

\* a call with less input than the argument takes, written over the input
\* of the call before
StaleCall ==
    \E c \in ShortCalls : Dispatch("raw", c[1], c[2], Leftover(Len(c[2])))

Next ==
    \/ BeginCall
    \/ DoSomething
    \/ CustomType
    \/ ScheduleCall
    \/ RawCall

\* the dispatcher, within one block
Spec == Init /\ [][Next]_vars

\* the messages of the contract and the calls that lean on what they left in
\* the buffer
NextBuffer ==
    \/ BeginCall
    \/ DoSomething
    \/ CustomType
    \/ StaleCall

SpecBuffer == Init /\ [][NextBuffer]_vars

(***************************************************************************)
(* The scheduling facility: at each new block it runs the calls due at that *)
(* block, each as a fresh call of the contract.                            *)
(***************************************************************************)
Due(ag, blk) == SelectSeq(ag, LAMBDA x : x.when = blk)
NotDue(ag, blk) == SelectSeq(ag, LAMBDA x : x.when # blk)

\* the re-entry of one due call: the contract routes it by the selector
Replay(entry, blk) ==
    [sid |-> entry.sid, block |-> blk, at |-> entry.at, made |-> entry.made,
     origin |-> entry.origin, dest |-> entry.call.dest,
     selector |-> Take(entry.call.data, 4), args |-> Drop(entry.call.data, 4),
     handled |-> Take(entry.call.data, 4) = HandlerSelector,
     effects |-> IF Take(entry.call.data, 4) = HandlerSelector
                 THEN SchedulerHandler(blk) ELSE NoMessage(blk)]

\* a periodic call is put back for the next block
Again(ag) == SelectSeq(ag, LAMBDA x : x.periodic)
Requeue(ag, blk) == [i \in 1 .. Len(ag) |-> [ag[i] EXCEPT !.when = blk + 1]]

Tick ==
    /\ now < MaxBlock
    /\ now' = now + 1
    /\ LET due == Due(agenda, now + 1) IN
       /\ replays' = replays \o [i \in 1 .. Len(due) |-> Replay(due[i], now + 1)]
       /\ agenda' = NotDue(agenda, now + 1) \o Requeue(Again(due), now + 1)
    /\ UNCHANGED << sender, storage, submitted, gas_left, charged, last, guest,
                    translated >>

NextSched ==
    \/ BeginCall
    \/ DoSomething
    \/ ScheduleCall
    \/ Tick

\* deferred calls over the blocks
SpecSched == Init /\ [][NextSched]_vars

\* the scheduling facility runs every block
SpecSchedFair == SpecSched /\ WF_vars(Tick)

(***************************************************************************)
(* One call of the contract with gas for two charges and not for three:    *)
(* the meter is never refilled.                                            *)
(***************************************************************************)
LongBudget == 3 * Weight - 1

InitMeter ==
    /\ sender \in Accounts
    /\ storage = {}
    /\ agenda = << >>
    /\ submitted = 0
    /\ now = 0
    /\ gas_left = LongBudget
    /\ charged = 0
    /\ last = NoDispatch
    /\ guest = [msg |-> "none", result |-> GuestNone]
    /\ replays = << >>
    /\ translated = NoTranslation

NextMeter ==
    \/ DoSomething
    \/ CustomType
    \/ ScheduleCall
    \/ RawCall

SpecMeter == InitMeter /\ [][NextMeter]_vars

(***************************************************************************)
(* The translator on its own: any status code a host may return.           *)
(***************************************************************************)
InitStatus ==
    /\ sender \in Accounts
    /\ storage = {}
    /\ agenda = << >>
    /\ submitted = 0
    /\ now = 0
    /\ gas_left = Budget
    /\ charged = 0
    /\ last = NoDispatch
    /\ guest = [msg |-> "none", result |-> GuestNone]
    /\ replays = << >>
    /\ translated \in { [code |-> c, done |-> FALSE, result |-> GuestNone] :
                        c \in StatusCodes }

Translate ==
    /\ ~translated.done
    /\ translated' = [translated EXCEPT !.done = TRUE,
                                        !.result = FromStatusCode(translated.code)]
    /\ UNCHANGED << sender, storage, agenda, submitted, now, gas_left, charged,
                    last, guest, replays >>

SpecStatus == InitStatus /\ [][Translate]_vars

(***************************************************************************)
(* The extension methods on their own: each method of the table against a  *)
(* host that converges with any status code.                               *)
(***************************************************************************)
\* a host's answer with status code c and nothing else done
HostAnswer(c) == Out(Converging(c), gas_left, storage, agenda, << >>, << >>)

MethodOnStatus(m) ==
    /\ ~translated.done
    /\ translated' = [translated EXCEPT !.done = TRUE]
    /\ guest' = [msg |-> m,
                 result |-> ExtensionMethod(ExtensionTable[m].id,
                                            HostAnswer(translated.code))]
    /\ UNCHANGED << sender, storage, agenda, submitted, now, gas_left, charged,
                    last, replays >>

NextGuest == \E m \in DOMAIN ExtensionTable : MethodOnStatus(m)

SpecGuest == InitStatus /\ [][NextGuest]_vars

(***************************************************************************)
(* Properties.                                                             *)
(***************************************************************************)
\* whether the input of dispatch l decodes as the argument of its function
DecodesOk(l) ==
    IF l.func_id = 2 THEN Decode_Custom(l.input).ok
    ELSE Len(l.input \o l.residue) >= 4

HostStateUnchanged(l) ==
    /\ l.after.storage = l.before.storage
    /\ l.after.agenda = l.before.agenda

Position(steps, name) ==
    IF \E i \in 1 .. Len(steps) : steps[i] = name
    THEN CHOOSE i \in 1 .. Len(steps) : steps[i] = name
    ELSE 0

\* C1: a dispatch with a func_id outside {1, 2, 3} ends in the panic: it
\* returns no status code and no error value, charges no weight, calls no
\* host logic and leaves the template storage and the scheduler queue as
\* they were; the guest gets nothing back.
C1_UnrecognizedIdAborts ==
    (last.valid /\ last.func_id \notin {1, 2, 3}) =>
        /\ last.ret.kind = "Panic"
        /\ ~IsConverging(last.ret) /\ last.ret.kind # "Err"
        /\ last.after.gas_left = last.before.gas_left
        /\ last.calls = << >>
        /\ HostStateUnchanged(last)
        /\ guest.result = GuestAbort

C1_Witness ==
    /\ last.valid /\ last.func_id = 99
    /\ last.ret.kind = "Panic"
    /\ last.before.storage # {} /\ last.before.agenda # << >>
    /\ last.before.gas_left > 0

\* C2: in functions 1 and 2 the weight is charged before the pallet is
\* called: do_something is only ever called after a successful charge, and
\* when the arguments decode but the gas left is below the weight, the pallet
\* is not called, host state is what it was, and the result is the OutOfGas
\* error, not status code 1.
C2_ChargeBeforeAct ==
    (last.valid /\ last.func_id \in {1, 2}) =>
        /\ \A i \in 1 .. Len(last.steps) :
              last.steps[i] \in {"do_something", "do_something:err"} =>
                  /\ Position(last.steps, "charge_weight") \in 1 .. (i - 1)
                  /\ last.before.gas_left >= Weight
        /\ (DecodesOk(last) /\ last.before.gas_left < Weight) =>
              /\ last.ret = Err("OutOfGas")
              /\ ~IsStatus(last.ret, 1)
              /\ last.calls = << >>
              /\ HostStateUnchanged(last)
              /\ guest.result = GuestTrap

C2_Witness ==
    /\ last.valid /\ last.func_id = 1
    /\ DecodesOk(last) /\ last.before.gas_left < Weight
    /\ last.before.gas_left > 0
    /\ last.ret = Err("OutOfGas")
    /\ last.before.storage # {} /\ storage = last.before.storage

\* C3: every dispatch of function 3 that enqueues a call has charged weight
\* in that dispatch, and a caller with no gas left enqueues nothing.
C3_ScheduleIsCharged ==
    (last.valid /\ last.func_id = 3) =>
        /\ Len(last.after.agenda) > Len(last.before.agenda) =>
              /\ Position(last.steps, "charge_weight") \in
                     1 .. (Position(last.steps, "schedule") - 1)
              /\ last.after.gas_left < last.before.gas_left
        /\ last.before.gas_left = 0 => last.after.agenda = last.before.agenda

C5_DecodeFailureIsStatus ==
    (last.valid /\ last.func_id \in {1, 2, 3} /\ ~DecodesOk(last)) =>
        /\ IsConverging(last.ret)
        /\ last.ret.code # 0
        /\ guest.result = GuestErr("EncodingFailed")

\* the host capability called by dispatch l failed
CapabilityFailed(l) ==
    \E i \in 1 .. Len(l.steps) : l.steps[i] \in {"do_something:err", "schedule:err"}

CapabilitySucceeded(l) ==
    \E i \in 1 .. Len(l.steps) : l.steps[i] \in {"do_something", "schedule"}

\* C6: when the pallet call of function 1 or 2, or the scheduler call of
\* function 3, fails, the dispatch converges with a nonzero status code;
\* status code 0 is returned only when the call succeeded.
C6_CapabilityFailureIsStatus ==
    last.valid =>
        /\ CapabilityFailed(last) =>
              (IsConverging(last.ret) /\ last.ret.code # 0)
        /\ (last.func_id \in {1, 2, 3} /\ IsStatus(last.ret, 0)) =>
              CapabilitySucceeded(last)

C8_DoSomething ==
    (last.valid /\ last.func_id = 1 /\ last.before.gas_left >= Weight) =>
        \A v \in U32Samples :
            last.input = Encode_u32(v) =>
                /\ last.steps = << "read_as", "charge_weight", "do_something" >>
                /\ last.after.gas_left = last.before.gas_left - Weight
                /\ last.calls = << [fn |-> "do_something",
                                    origin |-> Signed(sender), arg |-> v] >>
                /\ last.after.storage = {v}
                /\ IsStatus(last.ret, 0)
                /\ guest.result = GuestOk

C8_Witness ==
    /\ last.valid /\ last.func_id = 1
    /\ last.input = Encode_u32(42)
    /\ last.before.gas_left >= Weight
    /\ IsStatus(last.ret, 0)
    /\ storage = {42}
    /\ guest = [msg |-> "do_something", result |-> GuestOk]

Accepted(s) ==
    /\ last.valid /\ last.func_id = 3 /\ IsStatus(last.ret, 0)
    /\ submitted = s

Replayed(s) ==
    \E i \in 1 .. Len(replays) :
        /\ replays[i].sid = s
        /\ replays[i].handled
        /\ replays[i].block >= replays[i].at

\* C10: with the scheduler running every block, every dispatch of function 3
\* that returned status code 0 is followed by a replay that runs the
\* contract's scheduler handler, at the block asked for or later.
C10_EventuallyReplayed ==
    \A s \in 0 .. (MaxScheduled + 1) : Accepted(s) ~> Replayed(s)

\* C11: every status code a dispatch returns as Converging, for any function
\* id, input and gas left, is one from_status_code maps to Ok or to an error
\* value, so no extension method ends in the translator's panic.
C11_StatusCodesMapped ==
    (last.valid /\ IsConverging(last.ret)) =>
        /\ FromStatusCode(last.ret.code).kind \in {"Ok", "Err"}
        /\ FromStatusCode(last.ret.code) # GuestPanic
        /\ guest.result.kind # "Panic"

C11_Witness ==
    /\ last.valid /\ last.func_id = 2 /\ guest.msg = "raw"
    /\ IsStatus(last.ret, 1)
    /\ FromStatusCode(last.ret.code) = GuestErr("NotAPowerOfTwo")
    /\ guest.result = GuestErr("NotAPowerOfTwo")

\* the environment dispatch l ran in, and what handler k makes of l's input
EnvBefore(l) ==
    [caller |-> sender, address |-> ContractAddress,
     gas_left |-> l.before.gas_left, storage |-> l.before.storage,
     agenda |-> l.before.agenda,
     submitted |-> submitted - (Len(l.after.agenda) - Len(l.before.agenda)),
     now |-> now, residue |-> l.residue]

Outcome(l) ==
    Out(l.ret, l.after.gas_left, l.after.storage, l.after.agenda, l.steps, l.calls)

HandlerBranch(k, e, input) ==
    CASE k = 1 -> Func1(e, input)
      [] k = 2 -> Func2(e, input)
      [] k = 3 -> Func3(e, input)

\* the reads, charges and capability calls only the branch of k makes
OwnSteps(k) ==
    CASE k = 1 -> {"read_as", "read_as:err", "charge_weight",
                   "charge_weight:err", "do_something", "do_something:err"}
      [] k = 2 -> {"read_as_unbounded", "read_as_unbounded:err", "charge_weight",
                   "charge_weight:err", "do_something", "do_something:err"}
      [] k = 3 -> {"read_as", "read_as:err", "schedule", "schedule:err"}

\* C12: the ids of the extension table are 1, 2 and 3, pairwise distinct and
\* nonzero.  A dispatch of one of them runs the handler branch of that id and
\* no other: it takes at least one step, every step is one of that branch,
\* at most one capability is called, and it ends with a status code or an
\* error returned to the guest (or the abort), never with no answer.
C12_OneBranch ==
    /\ RegisteredIds = {1, 2, 3}
    /\ Cardinality(RegisteredIds) = Cardinality(DOMAIN ExtensionTable)
    /\ 0 \notin RegisteredIds
    /\ (last.valid /\ last.func_id \in RegisteredIds) =>
          /\ Outcome(last) = HandlerBranch(last.func_id, EnvBefore(last), last.input)
          /\ last.steps # << >>
          /\ \A i \in 1 .. Len(last.steps) : last.steps[i] \in OwnSteps(last.func_id)
          /\ Len(last.calls) <= 1
          /\ last.ret.kind \in {"Converging", "Err", "Panic"}
          /\ guest.result.kind \in {"Ok", "Err", "Trap", "Abort"}
          /\ IsConverging(last.ret) => guest.result.kind \in {"Ok", "Err"}
          /\ last.ret.kind = "Err" => guest.result = GuestTrap

C12_Witness ==
    /\ last.valid /\ last.func_id = 3
    /\ last.steps = << "read_as", "schedule" >>
    /\ IsStatus(last.ret, 0)
    /\ last.before.storage # {}
    /\ guest = [msg |-> "schedule_call", result |-> GuestOk]

\* C13 as stated: the caller of do_something is handed the status code the
\* host returned, unmodified (so what it gets tells one code from another),
\* and the code is neither translated, nor made an error, nor a panic.
C13_RawStatusDelivered ==
    (translated.done /\ guest.msg = "do_something") =>
        /\ \A c \in StatusCodes :
              ExtensionMethod(ExtensionTable.do_something.id, HostAnswer(c))
                  = guest.result => c = translated.code
        /\ guest.result.kind \notin {"Err", "Panic"}

\* C13, amended: do_something does not look at the status code: whatever
\* code the host returns, the caller gets the unit value, never an error and
\* never the translator's panic; the result is not that of from_status_code
\* for any code but 0, and is the same for every code.
C13_StatusIgnored ==
    (translated.done /\ guest.msg = "do_something") =>
        /\ ~ExtensionTable.do_something.handle_status
        /\ guest.result = GuestOk
        /\ guest.result.kind \notin {"Err", "Panic"}
        /\ translated.code # 0 => guest.result # FromStatusCode(translated.code)
        /\ \A c \in StatusCodes :
              ExtensionMethod(ExtensionTable.do_something.id, HostAnswer(c))
                  = guest.result

C13_Witness ==
    /\ translated.done /\ guest.msg = "do_something"
    /\ translated.code > MaxStatusCode
    /\ FromStatusCode(translated.code) = GuestPanic
    /\ guest.result = GuestOk

\* C14: what function 3 hands to the scheduler: the signed origin is the
\* caller and the execution point is the `at` the guest encoded; the call
\* the scheduler takes has the calling contract as target, value 0, no
\* periodic repetition, and as data the selector 00 C0 FF EE followed by the
\* arguments of the handler, which has none.
C14_CallDescription ==
    (last.valid /\ last.func_id = 3) =>
        \A at \in 0 .. MaxBlock :
            last.input = Encode_u32(at) =>
                /\ last.calls = << [fn |-> "schedule", origin |-> Signed(sender),
                                    arg |-> at] >>
                /\ IsStatus(last.ret, 0) =>
                      /\ Len(last.after.agenda) = Len(last.before.agenda) + 1
                      /\ LET d == last.after.agenda[Len(last.after.agenda)] IN
                         /\ d.call.dest = ContractAddress
                         /\ d.origin = sender
                         /\ d.when = at /\ d.at = at
                         /\ ~d.periodic
                         /\ d.call.value = 0
                         /\ Take(d.call.data, 4) = << 0, 192, 255, 238 >>
                         /\ Drop(d.call.data, 4) = << >>

C14_Witness ==
    /\ last.valid /\ last.func_id = 3
    /\ last.input = Encode_u32(MaxBlock)
    /\ IsStatus(last.ret, 0)
    /\ Len(agenda) = 1
    /\ agenda[1].call.dest = ContractAddress
    /\ agenda[1].when = MaxBlock

ReadSteps ==
    {"read_as", "read_as:err", "read_as_unbounded", "read_as_unbounded:err"}

\* C15: a dispatch decodes only the bytes the guest wrote for that call: its
\* outcome is what it would be if nothing followed the input in the guest's
\* memory, so what an earlier call left there is not observed; it reads
\* once, before anything else (function 2 the in_len bytes of the input and
\* no more), and writes the output at most once.
C15_OnlyOwnBytes ==
    (last.valid /\ last.func_id \in {1, 2, 3}) =>
        /\ Outcome(last) =
              HandlerBranch(last.func_id,
                            [EnvBefore(last) EXCEPT !.residue = << >>],
                            last.input)
        /\ last.steps[1] \in ReadSteps =>
              ReadAsUnbounded_Custom(last.input \o last.residue,
                                     InLen(last.input)) =
                  Decode_Custom(last.input)
        /\ \A i \in 1 .. Len(last.steps) :
              last.steps[i] \in ReadSteps => i = 1
        /\ Cardinality({ i \in 1 .. Len(last.steps) : last.steps[i] = "write" }) <= 1

\* C16: the argument is decoded before anything is metered: a dispatch of
\* function 1, 2 or 3 whose argument does not decode ends with the decoding
\* error after the one read; no weight is charged, neither the pallet nor
\* the scheduler is called, and template storage and scheduler queue are
\* what they were.
C16_DecodeBeforeMeter ==
    (last.valid /\ last.func_id \in {1, 2, 3} /\ ~DecodesOk(last)) =>
        /\ last.ret = Err("DecodingFailed")
        /\ Len(last.steps) = 1 /\ last.steps[1] \in ReadSteps
        /\ last.after.gas_left = last.before.gas_left
        /\ last.calls = << >>
        /\ HostStateUnchanged(last)
        /\ storage = last.before.storage /\ agenda = last.before.agenda

C16_Witness ==
    /\ last.valid /\ last.func_id = 1 /\ last.input = << 42, 0, 0 >>
    /\ ~DecodesOk(last)
    /\ last.before.gas_left \in 1 .. (Weight - 1)
    /\ last.before.storage # {} /\ last.before.agenda # << >>
    /\ gas_left = last.before.gas_left

\* C17: a dispatch of function 2 that returns status code 1 has charged the
\* whole weight, 10_000 plus one database write, which is what a dispatch
\* that returns status code 0 is charged; it has called nothing and left
\* template storage and scheduler queue as they were.
C17_RejectionIsCharged ==
    (last.valid /\ last.func_id = 2) =>
        /\ IsStatus(last.ret, 1) =>
              /\ last.before.gas_left - last.after.gas_left
                     = 10000 + DbWriteWeight
              /\ last.steps = << "read_as_unbounded", "charge_weight" >>
              /\ last.calls = << >>
              /\ HostStateUnchanged(last)
        /\ IsStatus(last.ret, 0) =>
              last.before.gas_left - last.after.gas_left = 10000 + DbWriteWeight

C17_Witness ==
    /\ last.valid /\ last.func_id = 2 /\ IsStatus(last.ret, 1)
    /\ last.input = Encode_Custom(<< >>)
    /\ last.before.storage # {} /\ last.before.agenda # << >>
    /\ charged = Weight
    /\ storage = last.before.storage /\ agenda = last.before.agenda

\* what dispatch l took from the gas meter
Added(l) == l.before.gas_left - l.after.gas_left

\* C18 as stated: within one budget the accumulated charge is never negative
\* and no dispatch lowers it; a dispatch of function 1 or 2 whose argument
\* decodes adds exactly 10_000 plus one database write; a dispatch of
\* function 3 or of an unrecognized id adds nothing.
C18_ExactCharge ==
    /\ charged >= 0
    /\ last.valid =>
          /\ Added(last) >= 0
          /\ LongBudget - last.before.gas_left <= charged
          /\ (last.func_id \in {1, 2} /\ DecodesOk(last)) =>
                Added(last) = 10000 + DbWriteWeight
          /\ last.func_id \notin {1, 2} => Added(last) = 0

\* C18, amended: the accumulated charge is what has left the meter, never
\* negative and never lowered by a dispatch; a dispatch of function 1 or 2
\* whose argument decodes adds exactly 10_000 plus one database write when
\* that much gas is left, and otherwise takes all that is left and ends with
\* OutOfGas; every other dispatch adds nothing.
C18_ChargeAccumulates ==
    /\ charged >= 0
    /\ charged = LongBudget - gas_left
    /\ charged \in {0, Weight, 2 * Weight, LongBudget}
    /\ last.valid =>
          /\ Added(last) >= 0
          /\ last.after.gas_left = gas_left
          /\ LongBudget - last.before.gas_left <= charged
          /\ (last.func_id \in {1, 2} /\ DecodesOk(last)) =>
                IF last.before.gas_left >= 10000 + DbWriteWeight
                THEN Added(last) = 10000 + DbWriteWeight
                ELSE /\ Added(last) = last.before.gas_left
                     /\ last.ret = Err("OutOfGas")
          /\ (last.func_id \notin {1, 2} \/ ~DecodesOk(last)) => Added(last) = 0

C18_Witness ==
    /\ last.valid /\ last.func_id = 2 /\ DecodesOk(last)
    /\ last.before.gas_left = LongBudget - Weight
    /\ charged = 2 * Weight
    /\ agenda # << >>

=============================================================================
